---- MODULE Spec2Model ----
(***************************************************************************)
(* Model of the adaptive Bayesian symptom-elimination engine               *)
(* (ai_service/engines/symptom_elimination.py, SymptomEliminationEngine):  *)
(* start(), update(), the posterior calculator, the question selector,     *)
(* the 3-5-7 stopping policy and the red-flag check.                       *)
(*                                                                         *)
(* Strings that the code inspects character by character (symptom ids,     *)
(* answers) are sequences of one-character strings, so that lower(),       *)
(* strip() and the substring test `a in b` are computed, not assumed.      *)
(* Floats are fixed-point integers: a probability p is the integer         *)
(* floor(p * SCALE); the unnormalised Bayes products are exact integers    *)
(* (weights in percent, common factors cancelled).                         *)
(***************************************************************************)
EXTENDS Integers, Sequences, FiniteSets, TLC

VARIABLES state, op, error, irregularCalls, engine, parked

vars == <<state, op, error, irregularCalls, engine, parked>>

(***************************************************************************)
(* Bounds of the exploration                                               *)
(***************************************************************************)
\* longest symptom list handed to start() where start() alone is explored
MaxStart == 3
\* update() calls outside the ask/answer protocol: made on a session whose
\* status is not IN_PROGRESS, or passing the optional symptom argument
MaxIrregularCalls == 1
\* the symptom argument is passed only on sessions that are at most this many
\* questions away from the hard maximum
ExplicitWindow == 1

(***************************************************************************)
(* Program constants                                                       *)
(***************************************************************************)
MIN_QUESTIONS == 3
SOFT_MAX_QUESTIONS == 5
HARD_MAX_QUESTIONS == 7
\* probabilities are integers in units of 1/SCALE
SCALE == 1000
\* 0.85, 0.70, 0.60 in units of 1/SCALE
HIGH_CONFIDENCE == 850
MEDIUM_CONFIDENCE == 700
LOW_CONFIDENCE == 600
\* 0.01 as a weight in percent
SMOOTHING_FACTOR == 1
\* the 0.01 cut-offs of _get_best_question and _generate_predictions, in 1/SCALE
MIN_PROB == 10
\* top-N diseases considered by the question selector, and predictions listed
TOP_DISEASES == 10
TOP_PREDICTIONS == 5

\* Python's None is the empty tuple; a present optional value x is <<x>>
None == <<>>
Some(x) == <<x>>

(***************************************************************************)
(* Strings                                                                 *)
(***************************************************************************)
fever == <<"f","e","v","e","r">>
cough == <<"c","o","u","g","h">>
headache == <<"h","e","a","d","a","c","h","e">>
chest_pain == <<"c","h","e","s","t"," ","p","a","i","n">>
chills == <<"c","h","i","l","l","s">>
nausea == <<"n","a","u","s","e","a">>
vomiting == <<"v","o","m","i","t","i","n","g">>
fatigue == <<"f","a","t","i","g","u","e">>
severe_headache == <<"s","e","v","e","r","e"," ","h","e","a","d","a","c","h","e">>

\* str.lower() on the letters that occur in the inputs
LowerChar(c) ==
    CASE c = "C" -> "c" [] c = "F" -> "f" [] c = "M" -> "m" [] c = "N" -> "n"
      [] c = "P" -> "p" [] c = "S" -> "s" [] c = "Y" -> "y" [] OTHER -> c

Lower(s) == [i \in 1..Len(s) |-> LowerChar(s[i])]

RECURSIVE LStrip(_)
LStrip(s) == IF s # <<>> /\ Head(s) = " " THEN LStrip(Tail(s)) ELSE s

RECURSIVE RStrip(_)
RStrip(s) ==
    IF s # <<>> /\ s[Len(s)] = " " THEN RStrip(SubSeq(s, 1, Len(s) - 1)) ELSE s

\* str.strip()
Strip(s) == RStrip(LStrip(s))

\* s.lower().strip()
Normalize(s) == Strip(Lower(s))

\* Python `sub in s` on strings
Contains(sub, s) ==
    /\ Len(sub) <= Len(s)
    /\ \E i \in 0..(Len(s) - Len(sub)) : SubSeq(s, i + 1, i + Len(sub)) = sub

\* Python `x in lst` on lists
InList(x, lst) == \E i \in 1..Len(lst) : lst[i] = x

(***************************************************************************)
(* Knowledge base: the tables the constructor loads                        *)
(***************************************************************************)
\* rows of disease_symptoms: (disease, symptom, weight in percent); nausea and
\* vomiting have the same weights, as "loss of taste" and "loss of smell" have
\* in the default table
disease_symptoms ==
    { <<"Influenza", fever, 90>>,      <<"Migraine", fever, 10>>,
      <<"Influenza", headache, 20>>,   <<"Migraine", headache, 90>>,
      <<"Influenza", cough, 80>>,      <<"Migraine", cough, 20>>,
      <<"Influenza", nausea, 30>>,     <<"Migraine", nausea, 70>>,
      <<"Influenza", chills, 60>>,     <<"Migraine", chills, 40>>,
      <<"Influenza", fatigue, 50>>,    <<"Migraine", fatigue, 50>>,
      <<"Influenza", vomiting, 30>>,   <<"Migraine", vomiting, 70>>,
      <<"Influenza", chest_pain, 10>> }

\* self.diseases = list(set(...)): one iteration order, fixed for the process
diseases == <<"Influenza", "Migraine">>

DiseaseSet == {diseases[i] : i \in 1..Len(diseases)}

\* self.symptoms
symptoms == {r[2] : r \in disease_symptoms}

\* self.disease_priors, as integer weights (uniform when no priors file exists)
disease_priors == [d \in DiseaseSet |-> 1]

\* self.red_flags: (symptom, severity), in list order
red_flags ==
    << [symptom |-> chest_pain, severity |-> "critical"],
       [symptom |-> severe_headache, severity |-> "high"] >>

\* self.info_gain_cache: symptom -> cached training gain, in 1/GAIN_SCALE bits
info_gain_cache == [s \in {cough} |-> 512]

\* variant: a pair without a KB row gets weight 0
likelihood_matrix_NoSmoothing ==
    [d \in DiseaseSet |->
        [s \in symptoms |->
            IF \E r \in disease_symptoms : r[1] = d /\ r[2] = s
            THEN (CHOOSE r \in disease_symptoms : r[1] = d /\ r[2] = s)[3]
            ELSE 0]]

\* _build_likelihood_matrix: P(S|D) in percent, smoothing for missing pairs
likelihood_matrix ==
    [d \in DiseaseSet |->
        [s \in symptoms |->
            IF \E r \in disease_symptoms : r[1] = d /\ r[2] = s
            THEN (CHOOSE r \in disease_symptoms : r[1] = d /\ r[2] = s)[3]
            ELSE SMOOTHING_FACTOR]]

\* variant: a symptom outside the matrix gets weight 0
Likelihood_NoDefault(d, s) ==
    IF d \in DOMAIN engine.likelihood_matrix /\ s \in DOMAIN engine.likelihood_matrix[d]
    THEN engine.likelihood_matrix[d][s]
    ELSE 0

\* self.likelihood_matrix.get(disease, {}).get(symptom, SMOOTHING_FACTOR)
Likelihood(d, s) ==
    IF d \in DOMAIN engine.likelihood_matrix /\ s \in DOMAIN engine.likelihood_matrix[d]
    THEN engine.likelihood_matrix[d][s]
    ELSE SMOOTHING_FACTOR

(***************************************************************************)
(* check_red_flags                                                         *)
(***************************************************************************)
RECURSIVE FlagsFrom(_, _)
FlagsFrom(i, syms) ==
    IF i > Len(engine.red_flags) THEN <<>>
    ELSE LET flag_symptom == Lower(engine.red_flags[i].symptom)
             hits == {j \in 1..Len(syms) :
                         \/ Contains(flag_symptom, Lower(syms[j]))
                         \/ Contains(Lower(syms[j]), flag_symptom)}
         IN  IF hits = {} THEN FlagsFrom(i + 1, syms)
             ELSE LET j == CHOOSE k \in hits : \A m \in hits : k <= m
                  IN  <<[symptom |-> syms[j], severity |-> engine.red_flags[i].severity]>>
                          \o FlagsFrom(i + 1, syms)

\* variant: only the first reported symptom is screened
check_red_flags_FirstOnly(syms) == FlagsFrom(1, SubSeq(syms, 1, IF Len(syms) > 0 THEN 1 ELSE 0))

check_red_flags(syms) == FlagsFrom(1, syms)

(***************************************************************************)
(* _compute_posterior                                                      *)
(***************************************************************************)
RECURSIVE Gcd(_, _)
Gcd(a, b) == IF b = 0 THEN a ELSE Gcd(b, a % b)

RECURSIVE GcdOver(_, _)
GcdOver(f, i) ==
    IF i > Len(diseases) THEN 0 ELSE Gcd(f[diseases[i]], GcdOver(f, i + 1))

\* the same distribution with the common factor of all entries cancelled
Reduce(f) ==
    LET g == GcdOver(f, 1)
    IN  IF g = 0 THEN f ELSE [d \in DOMAIN f |-> f[d] \div g]

\* prob *= likelihood, for every symptom of the list in turn
RECURSIVE MulPositive(_, _)
MulPositive(f, syms) ==
    IF syms = <<>> THEN f
    ELSE MulPositive(Reduce([d \in DOMAIN f |-> f[d] * Likelihood(d, Head(syms))]),
                     Tail(syms))

\* prob *= (1.0 - likelihood), for every denied symptom in turn
\* variant: a denied symptom is weighted like a confirmed one
MulNegative_AsPositive(f, syms) == MulPositive(f, syms)

RECURSIVE MulNegative(_, _)
MulNegative(f, syms) ==
    IF syms = <<>> THEN f
    ELSE MulNegative(Reduce([d \in DOMAIN f |-> f[d] * (100 - Likelihood(d, Head(syms)))]),
                     Tail(syms))

RECURSIVE SumOver(_, _)
SumOver(f, i) ==
    IF i > Len(diseases) THEN 0 ELSE f[diseases[i]] + SumOver(f, i + 1)

\* floor(n * SCALE / total), one decimal digit at a time
RECURSIVE FxDigits(_, _, _)
FxDigits(r, total, k) ==
    IF k = 1 THEN 0
    ELSE ((r * 10) \div total) * (k \div 10) + FxDigits((r * 10) % total, total, k \div 10)

FxDiv(n, total) == IF n = total THEN SCALE ELSE FxDigits(n, total, SCALE)

\* unnormalised P(D) * prod P(s+|D) * prod (1 - P(s-|D))
Unnormalized(prior, syms, negative_symptoms) ==
    MulNegative(
        MulPositive(
            Reduce([d \in DiseaseSet |-> IF d \in DOMAIN prior THEN prior[d] ELSE 1]),
            syms),
        negative_symptoms)

\* variant: a zero total is passed on instead of the uniform fallback
_compute_posterior_NoFallback(prior, syms, negative_symptoms) ==
    LET raw == Unnormalized(prior, syms, negative_symptoms)
        total == SumOver(raw, 1)
    IN  IF total > 0
        THEN [d \in DiseaseSet |-> FxDiv(raw[d], total)]
        ELSE [d \in DiseaseSet |-> 0]

\* variant: the masses are divided by the largest of them, not by their sum
_compute_posterior_DivideByMax(prior, syms, negative_symptoms) ==
    LET raw == Unnormalized(prior, syms, negative_symptoms)
        top == CHOOSE m \in {raw[d] : d \in DiseaseSet} : \A d \in DiseaseSet : raw[d] <= m
    IN  IF top > 0
        THEN [d \in DiseaseSet |-> FxDiv(raw[d], top)]
        ELSE [d \in DiseaseSet |-> SCALE \div Len(diseases)]

_compute_posterior(prior, syms, negative_symptoms) ==
    LET raw == Unnormalized(prior, syms, negative_symptoms)
        total == SumOver(raw, 1)
    IN  IF total > 0
        THEN [d \in DiseaseSet |-> FxDiv(raw[d], total)]
        ELSE [d \in DiseaseSet |-> SCALE \div Len(diseases)]

(***************************************************************************)
(* Question selector: _entropy, _expected_information_gain,                *)
(* _get_best_question                                                      *)
(***************************************************************************)
\* entropies and gains are integers in units of 1/GAIN_SCALE bits
GAIN_SCALE == 1024
\* fraction bits of the mantissa used by Log2Fx
MANT == 16384

RECURSIVE IntLog2(_)
IntLog2(n) == IF n < 2 THEN 0 ELSE 1 + IntLog2(n \div 2)

RECURSIVE Pow2(_)
Pow2(e) == IF e = 0 THEN 1 ELSE 2 * Pow2(e - 1)

\* the fraction of log2(m / MANT), m in [MANT, 2*MANT), by repeated squaring
RECURSIVE FracBits(_, _)
FracBits(m, bit) ==
    IF bit = 0 THEN 0
    ELSE LET sq == (m * m) \div MANT
         IN  IF sq >= 2 * MANT
             THEN bit + FracBits(sq \div 2, bit \div 2)
             ELSE FracBits(sq, bit \div 2)

\* math.log2(n) for an integer n >= 1, in units of 1/GAIN_SCALE
Log2Fx(n) ==
    LET e == IntLog2(n)
    IN  e * GAIN_SCALE + FracBits((n * MANT) \div Pow2(e), GAIN_SCALE \div 2)

\* the logarithms of the probabilities 1/SCALE .. SCALE/SCALE, computed once
Log2Table == [n \in 1..SCALE |-> Log2Fx(n)]

\* -sum p * log2(p) over the p > 0 of a distribution given in 1/SCALE
RECURSIVE EntropySum(_, _)
EntropySum(f, i) ==
    IF i > Len(diseases) THEN 0
    ELSE LET p == f[diseases[i]]
         IN  (IF p > 0 THEN p * (Log2Table[SCALE] - Log2Table[p]) ELSE 0)
                 + EntropySum(f, i + 1)

_entropy(f) == EntropySum(f, 1) \div SCALE

Max(a, b) == IF a >= b THEN a ELSE b
Min(a, b) == IF a <= b THEN a ELSE b

\* a distribution of unnormalised masses, divided by its total when positive
NormalizeIfPositive(f) ==
    LET total == SumOver(f, 1)
    IN  IF total > 0 THEN [d \in DOMAIN f |-> FxDiv(f[d], total)] ELSE f

_expected_information_gain(posterior, symptom) ==
    LET current_entropy == _entropy(posterior)
        mass_yes == [d \in DiseaseSet |-> posterior[d] * Likelihood(d, symptom)]
        mass_no == [d \in DiseaseSet |-> posterior[d] * (100 - Likelihood(d, symptom))]
        p_yes_raw == SumOver(mass_yes, 1) \div 100
        p_yes == Max(10, Min(990, p_yes_raw))
        p_no == Max(10, Min(990, SCALE - p_yes_raw))
        entropy_yes == _entropy(NormalizeIfPositive(mass_yes))
        entropy_no == _entropy(NormalizeIfPositive(mass_no))
        expected_entropy == (p_yes * entropy_yes + p_no * entropy_no) \div SCALE
    IN  Max(0, current_entropy - expected_entropy)

\* position of disease d in sorted(posterior.items(), key=p, reverse=True):
\* the sort is stable, ties keep the order of self.diseases
RankOf(posterior, i) ==
    1 + Cardinality({j \in 1..Len(diseases) :
            \/ posterior[diseases[j]] > posterior[diseases[i]]
            \/ (posterior[diseases[j]] = posterior[diseases[i]] /\ j < i)})

Ranked(posterior) ==
    [r \in 1..Len(diseases) |->
        diseases[CHOOSE i \in 1..Len(diseases) : RankOf(posterior, i) = r]]

\* gain plus 0.1 * cached training gain
Score(posterior, symptom) ==
    _expected_information_gain(posterior, symptom)
        + (IF symptom \in DOMAIN engine.info_gain_cache
           THEN engine.info_gain_cache[symptom] \div 10 ELSE 0)

\* self.symptom_questions: symptom -> answer options
symptom_questions ==
    [s \in {chills} |-> << <<"M","i","l","d">>, <<"S","e","v","e","r","e">> >>]

DefaultOptions ==
    << <<"Y","e","s">>, <<"N","o">>, <<"N","o","t"," ","s","u","r","e">> >>

Question(symptom) ==
    [symptom |-> symptom,
     options |-> IF symptom \in DOMAIN engine.symptom_questions
                 THEN engine.symptom_questions[symptom] ELSE DefaultOptions]

\* variant: asked and known symptoms stay candidates
Eligible_IgnoreAsked(posterior, asked_symptoms) ==
    LET ranked == Ranked(posterior)
        top_diseases == {ranked[r] : r \in {k \in 1..Len(ranked) :
                            k <= TOP_DISEASES /\ posterior[ranked[k]] > MIN_PROB}}
    IN  UNION {DOMAIN engine.likelihood_matrix[d] : d \in top_diseases \cap DOMAIN engine.likelihood_matrix}

\* the candidates the loop of _get_best_question scores
Eligible(posterior, asked_symptoms) ==
    LET ranked == Ranked(posterior)
        top_diseases == {ranked[r] : r \in {k \in 1..Len(ranked) :
                            k <= TOP_DISEASES /\ posterior[ranked[k]] > MIN_PROB}}
        candidate_symptoms ==
            UNION {DOMAIN engine.likelihood_matrix[d] : d \in top_diseases \cap DOMAIN engine.likelihood_matrix}
    IN  {s \in candidate_symptoms : ~InList(s, asked_symptoms)}

\* variant: a candidate is returned only when its score is above 0
_get_best_question_SkipZeroGain(posterior, asked_symptoms) ==
    LET cands == {s \in Eligible(posterior, asked_symptoms) : Score(posterior, s) > 0}
    IN  IF cands = {} THEN {None}
        ELSE {Some(Question(c)) : c \in {c \in cands :
                 \A t \in cands : Score(posterior, t) <= Score(posterior, c)}}

\* variant: with no candidate left, an answered symptom is asked again
_get_best_question_NeverNone(posterior, asked_symptoms) ==
    LET cands == Eligible(posterior, asked_symptoms)
    IN  {Some(Question(c)) : c \in IF cands = {} THEN symptoms ELSE cands}

\* The results _get_best_question can return: the loop keeps the first
\* candidate of maximal score in the iteration order of a set of strings,
\* which differs from process to process, so every maximal candidate is a
\* possible result.  None when no candidate is left.
_get_best_question(posterior, asked_symptoms) ==
    LET cands == Eligible(posterior, asked_symptoms)
        score == [s \in cands |-> Score(posterior, s)]
    IN  IF cands = {} THEN {None}
        ELSE {Some(Question(c)) : c \in {c \in cands :
                 \A t \in cands : score[t] <= score[c]}}

_get_candidate_questions(observed) ==
    symptoms \ {observed[i] : i \in 1..Len(observed)}

\* _generate_predictions: top five, entries below 0.01 skipped
\* variant: MODERATE is never given, MEDIUM starts at the low threshold
Confidence_NoModerate(prob) ==
    IF prob >= HIGH_CONFIDENCE THEN "HIGH"
    ELSE IF prob >= LOW_CONFIDENCE THEN "MEDIUM"
    ELSE "LOW"

Confidence(prob) ==
    IF prob >= HIGH_CONFIDENCE THEN "HIGH"
    ELSE IF prob >= MEDIUM_CONFIDENCE THEN "MEDIUM"
    ELSE IF prob >= LOW_CONFIDENCE THEN "MODERATE"
    ELSE "LOW"

RECURSIVE PredictionsFrom(_, _, _)
PredictionsFrom(posterior, ranked, i) ==
    IF i > Len(ranked) \/ i > TOP_PREDICTIONS THEN <<>>
    ELSE LET prob == posterior[ranked[i]]
         IN  (IF prob < MIN_PROB THEN <<>>
              ELSE <<[rank |-> i, disease |-> ranked[i], probability |-> prob,
                      confidence |-> Confidence(prob)]>>)
                 \o PredictionsFrom(posterior, ranked, i + 1)

_generate_predictions(posterior) == PredictionsFrom(posterior, Ranked(posterior), 1)

(***************************************************************************)
(* Inputs                                                                  *)
(***************************************************************************)
\* symptom strings as callers write them, before normalisation
RawSymptoms ==
    { fever, cough, headache, <<" ","C","h","e","s","t"," ","P","a","i","n">>,
      <<"r","a","s","h">> }

\* the symptom lists sessions are started with
StartInputs ==
    { <<>>, <<fever>>, << <<" ","C","h","e","s","t"," ","P","a","i","n">> >>,
      <<fever, cough, nausea, chills, fatigue, vomiting>>,
      <<fever, cough, headache, nausea, chills, fatigue, vomiting, chest_pain>> }

\* values of update()'s optional symptom argument
ExplicitSymptoms == { <<"F","e","v","e","r"," ">>, <<"r","a","s","h">> }

yes == <<"y","e","s">>
no == <<"n","o">>

Answers ==
    { <<"Y","e","s">>, <<"N","o">>, <<"N","o","t"," ","s","u","r","e">>,
      <<"m","a","y","b","e">> }

\* all sequences over S of length at most n
RECURSIVE SeqsUpTo(_, _)
SeqsUpTo(S, n) ==
    IF n = 0 THEN {<<>>}
    ELSE LET shorter == SeqsUpTo(S, n - 1)
         IN  shorter \cup {Append(q, x) : q \in shorter, x \in S}

(***************************************************************************)
(* Session state                                                           *)
(***************************************************************************)
\* before start() there is no session
NoSession ==
    [status |-> "NONE", posterior |-> [d \in DiseaseSet |-> 0],
     observed_symptoms |-> <<>>, negative_symptoms |-> <<>>,
     asked_questions |-> <<>>, candidate_questions |-> {},
     next_question |-> None, red_flags |-> <<>>, last_question |-> None,
     stop_reason |-> "", final_predictions |-> <<>>]

\* the last call: its name and arguments, the state it was given as it was
\* before the call (pre) and as it is after it (given), the symptom update()
\* resolved (current), how it read the answer (class), the number of
\* update() calls made on the session so far (calls) and the number the
\* other session had made by then (others)
NoOp == [name |-> "none", input |-> <<>>, answer |-> <<>>, symptom |-> None,
         current |-> None, class |-> "none", pre |-> NoSession,
         given |-> NoSession, calls |-> 0, others |-> 0]

\* the tables __init__ loads into the engine that every session shares
LoadedTables ==
    [likelihood_matrix |-> likelihood_matrix,
     disease_priors |-> disease_priors,
     red_flags |-> red_flags,
     symptom_questions |-> symptom_questions,
     info_gain_cache |-> info_gain_cache]

\* variant: the selector stores a boost for the question it returns
SelfAfter_CachesGain(self, returned) ==
    IF returned.next_question = None THEN self
    ELSE [self EXCEPT !.info_gain_cache =
            [s \in DOMAIN @ \cup {returned.next_question[1].symptom} |-> 512]]

\* self after start() or update() has returned: both only read the tables,
\* the prior is copied before it is handed to the posterior calculator
SelfAfter(self, returned) == self

\* the session that is not being served: its state and its last call
NoneParked == [state |-> NoSession, op |-> NoOp, irregularCalls |-> 0]

Init ==
    /\ state = NoSession
    /\ op = NoOp
    /\ error = "none"
    /\ irregularCalls = 0
    /\ engine = LoadedTables
    /\ parked = NoneParked

(***************************************************************************)
(* start                                                                   *)
(***************************************************************************)
\* the states start(input) can return
start(input) ==
    LET syms == [i \in 1..Len(input) |-> Normalize(input[i])]
        flags == check_red_flags(syms)
        posterior == _compute_posterior(engine.disease_priors, syms, <<>>)
    IN  {[status |-> IF flags # <<>> THEN "EMERGENCY" ELSE "IN_PROGRESS",
          posterior |-> posterior,
          observed_symptoms |-> syms,
          negative_symptoms |-> <<>>,
          asked_questions |-> <<>>,
          candidate_questions |-> _get_candidate_questions(syms),
          next_question |-> next_q,
          red_flags |-> flags,
          last_question |-> None,
          stop_reason |-> "",
          final_predictions |-> <<>>] :
            next_q \in _get_best_question(posterior, syms)}

Start ==
    /\ state.status = "NONE"
    /\ \E input \in StartInputs :
        /\ state' \in start(input)
        /\ op' = [NoOp EXCEPT !.name = "start", !.input = input,
                              !.others = parked.op.calls]
    /\ error' = "none"
    /\ engine' = SelfAfter(engine, state')
    /\ UNCHANGED <<irregularCalls, parked>>

(***************************************************************************)
(* update                                                                  *)
(***************************************************************************)
\* Python truthiness of an optional string: neither None nor ""
Truthy(opt) == opt # None /\ opt[1] # <<>>

\* lines 1000-1011: the values current_symptom can have before the None test
current_symptom(st, symptom) ==
    LET fromQuestion ==
            IF ~Truthy(symptom) /\ st.next_question # None
            THEN Some(st.next_question[1].symptom)
            ELSE symptom
        remaining ==
            {q \in st.candidate_questions : ~InList(q, st.asked_questions)}
    IN  IF ~Truthy(fromQuestion) /\ remaining # {}
        THEN {Some(q) : q \in remaining}
        ELSE {fromQuestion}

\* lines 1035 and 1042: how the answer string is read
IsYes(answer_lower) ==
    \/ Contains(yes, answer_lower)
    \/ answer_lower \in { <<"m","i","l","d">>, <<"m","o","d","e","r","a","t","e">>,
                          <<"s","e","v","e","r","e">>, <<"t","r","u","e">>, <<"1">> }

IsNo(answer_lower) ==
    \/ Contains(no, answer_lower)
    \/ answer_lower \in { <<"f","a","l","s","e">>, <<"0">> }

Classify(answer) ==
    LET answer_lower == Normalize(answer)
    IN  IF IsYes(answer_lower) THEN "yes"
        ELSE IF IsNo(answer_lower) THEN "no"
        ELSE "other"

\* lines 1062-1078: the 3-5-7 decision, "" when the session goes on
\* variant: the hard maximum is applied one question late
StopReason_HardMaxLate(questions_asked, top_score) ==
    IF questions_asked < MIN_QUESTIONS THEN ""
    ELSE IF MIN_QUESTIONS <= questions_asked /\ questions_asked < SOFT_MAX_QUESTIONS
    THEN (IF top_score >= HIGH_CONFIDENCE THEN "High confidence" ELSE "")
    ELSE IF SOFT_MAX_QUESTIONS <= questions_asked /\ questions_asked <= HARD_MAX_QUESTIONS
    THEN (IF top_score >= LOW_CONFIDENCE THEN "Sufficient confidence" ELSE "")
    ELSE "Maximum questions reached"

\* variant: no minimum number of questions before a high-confidence stop
StopReason_NoMinimum(questions_asked, top_score) ==
    IF questions_asked < SOFT_MAX_QUESTIONS
    THEN (IF top_score >= HIGH_CONFIDENCE THEN "High confidence" ELSE "")
    ELSE IF SOFT_MAX_QUESTIONS <= questions_asked /\ questions_asked < HARD_MAX_QUESTIONS
    THEN (IF top_score >= LOW_CONFIDENCE THEN "Sufficient confidence" ELSE "")
    ELSE "Maximum questions reached"

\* variant: the low threshold is applied from the third question on
StopReason_LowThresholdEarly(questions_asked, top_score) ==
    IF questions_asked < MIN_QUESTIONS THEN ""
    ELSE IF MIN_QUESTIONS <= questions_asked /\ questions_asked < HARD_MAX_QUESTIONS
    THEN (IF top_score >= LOW_CONFIDENCE THEN "Sufficient confidence" ELSE "")
    ELSE "Maximum questions reached"

\* variant: past the soft maximum only the low threshold stops the session
StopReason_NoHardMax(questions_asked, top_score) ==
    IF questions_asked < MIN_QUESTIONS THEN ""
    ELSE IF MIN_QUESTIONS <= questions_asked /\ questions_asked < SOFT_MAX_QUESTIONS
    THEN (IF top_score >= HIGH_CONFIDENCE THEN "High confidence" ELSE "")
    ELSE (IF top_score >= LOW_CONFIDENCE THEN "Sufficient confidence" ELSE "")

\* variant: confidence never stops the session, only the hard maximum does
StopReason_HardOnly(questions_asked, top_score) ==
    IF questions_asked < HARD_MAX_QUESTIONS THEN "" ELSE "Maximum questions reached"

StopReason(questions_asked, top_score) ==
    IF questions_asked < MIN_QUESTIONS THEN ""
    ELSE IF MIN_QUESTIONS <= questions_asked /\ questions_asked < SOFT_MAX_QUESTIONS
    THEN (IF top_score >= HIGH_CONFIDENCE THEN "High confidence" ELSE "")
    ELSE IF SOFT_MAX_QUESTIONS <= questions_asked /\ questions_asked < HARD_MAX_QUESTIONS
    THEN (IF top_score >= LOW_CONFIDENCE THEN "Sufficient confidence" ELSE "")
    ELSE "Maximum questions reached"

\* sorted_probs[0]["probability"]
TopScore(posterior) == posterior[Ranked(posterior)[1]]

\* lines 1030-1032: the question counts once
\* variant: the symptom is appended even when it was asked before
AddAsked_Always(asked, sym) == Append(asked, sym)

AddAsked(asked, sym) == IF InList(sym, asked) THEN asked ELSE Append(asked, sym)

\* lines 1013-1017: no symptom to record the answer against
FinishInPlace(st) ==
    [st EXCEPT !.status = "FINISHED",
               !.final_predictions = _generate_predictions(st.posterior)]

\* variant: new matches replace the red flags found so far
ExtendFlags_Replace(flags, new_flags) == IF new_flags # <<>> THEN new_flags ELSE flags

\* state.setdefault("red_flags", []).extend(new_flags)
ExtendFlags(flags, new_flags) == flags \o new_flags

\* the dictionary update() was called on, after the call: line 1041 extends
\* its red-flag list in place, every other list is copied first
GivenAfter(st, answer, cur) ==
    LET sym == Normalize(cur)
    IN  IF Classify(answer) = "yes" /\ ~InList(sym, st.observed_symptoms)
        THEN [st EXCEPT !.red_flags = ExtendFlags(@, check_red_flags(<<sym>>))]
        ELSE st

\* variant: with no question left the session stays open
Exhausted_StaysInProgress(new_state, finished) == new_state

\* the else branch of `if next_q`: no more questions available
Exhausted(new_state, finished) ==
    [finished EXCEPT !.stop_reason = "All relevant questions exhausted"]

\* lines 1019-1115, for the resolved symptom cur
Answered(st, answer, cur) ==
    LET sym == Normalize(cur)
        class == Classify(answer)
        asked == AddAsked(st.asked_questions, sym)
        confirms == class = "yes" /\ ~InList(sym, st.observed_symptoms)
        observed == IF confirms
                    THEN Append(st.observed_symptoms, sym)
                    ELSE st.observed_symptoms
        flags == IF confirms
                 THEN ExtendFlags(st.red_flags, check_red_flags(<<sym>>))
                 ELSE st.red_flags
        negative == IF class = "no" /\ ~InList(sym, st.negative_symptoms)
                    THEN Append(st.negative_symptoms, sym)
                    ELSE st.negative_symptoms
        posterior == _compute_posterior(engine.disease_priors, observed, negative)
        stop_reason == StopReason(Len(asked), TopScore(posterior))
        new_state == [status |-> "IN_PROGRESS",
                      posterior |-> posterior,
                      observed_symptoms |-> observed,
                      negative_symptoms |-> negative,
                      asked_questions |-> asked,
                      candidate_questions |-> st.candidate_questions,
                      next_question |-> None,
                      red_flags |-> flags,
                      last_question |-> Some(sym),
                      stop_reason |-> stop_reason,
                      final_predictions |-> <<>>]
        finished == [new_state EXCEPT
                        !.status = "FINISHED",
                        !.final_predictions = _generate_predictions(posterior)]
    IN  IF stop_reason # ""
        THEN {finished}
        ELSE {IF next_q # None
              THEN [new_state EXCEPT !.next_question = next_q]
              ELSE Exhausted(new_state, finished) :
                next_q \in _get_best_question(posterior, observed \o negative \o asked)}

\* update(state, answer, symptom): the (resolved symptom, returned state) pairs
update(st, answer, symptom) ==
    UNION {IF cur = None
           THEN {[current |-> cur, state |-> FinishInPlace(st),
                  given |-> FinishInPlace(st)]}
           ELSE {[current |-> cur, state |-> new,
                  given |-> GivenAfter(st, answer, cur[1])] :
                     new \in Answered(st, answer, cur[1])} :
              cur \in current_symptom(st, symptom)}

\* a call outside the ask/answer protocol
Irregular(st, symptom) == st.status # "IN_PROGRESS" \/ symptom # None

Update ==
    /\ state.status # "NONE"
    /\ \E answer \in Answers, symptom \in {None} \cup {Some(x) : x \in ExplicitSymptoms} :
        /\ Irregular(state, symptom) => irregularCalls < MaxIrregularCalls
        /\ symptom # None =>
                HARD_MAX_QUESTIONS - Len(state.asked_questions) <= ExplicitWindow
        /\ \E r \in update(state, answer, symptom) :
            /\ state' = r.state
            /\ op' = [name |-> "update", input |-> <<>>, answer |-> answer,
                      symptom |-> symptom, current |-> r.current,
                      class |-> Classify(answer), pre |-> state,
                      given |-> r.given, calls |-> op.calls + 1,
                      others |-> parked.op.calls]
            /\ engine' = SelfAfter(engine, r.state)
        /\ irregularCalls' = IF Irregular(state, symptom)
                             THEN irregularCalls + 1 ELSE irregularCalls
    \* no path of update() raises
    /\ error' = "none"
    /\ UNCHANGED parked

Next == Start \/ Update

Spec == Init /\ [][Next]_vars

(***************************************************************************)
(* Two sessions served by one engine, their calls interleaved              *)
(***************************************************************************)
\* update() calls made on each of the two sessions
MaxSharedCalls == 2

\* the next request is for the other session id: the service looks its
\* state up in the session table and hands it to the same engine
Switch ==
    /\ state' = parked.state
    /\ op' = parked.op
    /\ irregularCalls' = parked.irregularCalls
    /\ parked' = [state |-> state, op |-> op, irregularCalls |-> irregularCalls]
    /\ UNCHANGED <<engine, error>>

\* a new session on at most one reported symptom
SharedStart == Start /\ Len(op'.input) <= 1

\* a follow-up request for the session being served, answered yes or no
SharedUpdate ==
    /\ op.calls < MaxSharedCalls
    /\ Update
    /\ op'.answer \in { <<"Y","e","s">>, <<"N","o">> }

NextShared == SharedStart \/ SharedUpdate \/ Switch

SpecShared == Init /\ [][NextShared]_vars

\* start() alone, on every symptom list of up to MaxStart raw strings
StartAny ==
    /\ state.status = "NONE"
    /\ \E input \in SeqsUpTo(RawSymptoms, MaxStart) :
        /\ state' \in start(input)
        /\ op' = [NoOp EXCEPT !.name = "start", !.input = input,
                              !.others = parked.op.calls]
    /\ error' = "none"
    /\ engine' = SelfAfter(engine, state')
    /\ UNCHANGED <<irregularCalls, parked>>

SpecStart == Init /\ [][StartAny]_vars

(***************************************************************************)
(* The posterior calculator on its own: any prior, any symptom lists       *)
(***************************************************************************)
\* longest confirmed / denied list handed to the calculator
MaxPosteriorList == 2

\* priors as integer weights; the all-zero prior has no mass at all
Priors ==
    { [d \in DiseaseSet |-> 1],
      [d \in DiseaseSet |-> 0],
      [d \in DiseaseSet |-> IF d = "Influenza" THEN 3 ELSE 1],
      [d \in DiseaseSet |-> IF d = "Influenza" THEN 0 ELSE 1] }

PosteriorSymptoms == {fever, chest_pain, <<"r","a","s","h">>}

\* _compute_posterior(prior, symptoms, negative_symptoms) followed by
\* _get_best_question on the result, as start() and update() chain them
ComputePosterior ==
    /\ state.status = "NONE"
    /\ \E prior \in Priors,
          syms \in SeqsUpTo(PosteriorSymptoms, MaxPosteriorList),
          negative_symptoms \in SeqsUpTo(PosteriorSymptoms, MaxPosteriorList) :
        LET posterior == _compute_posterior(prior, syms, negative_symptoms)
        IN  /\ \E next_q \in _get_best_question(posterior, syms \o negative_symptoms) :
                state' = [NoSession EXCEPT !.status = "POSTERIOR",
                                           !.posterior = posterior,
                                           !.observed_symptoms = syms,
                                           !.negative_symptoms = negative_symptoms,
                                           !.next_question = next_q]
            /\ op' = [NoOp EXCEPT !.name = "_compute_posterior",
                                  !.pre = [NoSession EXCEPT !.posterior = prior]]
    /\ error' = "none"
    /\ UNCHANGED <<irregularCalls, engine, parked>>

SpecPosterior == Init /\ [][ComputePosterior]_vars

(***************************************************************************)
(* The question selector on its own: repeated calls, each in an engine     *)
(* process of its own (a worker, or the service after a restart)           *)
(***************************************************************************)
\* longest confirmed list a selector call is made for
MaxSelectorList == 2

SelectorObserved == SeqsUpTo({fever, cough}, MaxSelectorList)

SelectorNegative == { <<>>, <<headache>>, <<headache, chills>> }

\* _get_best_question(posterior, observed + negative), the posterior being
\* the one of those lists; the previous call is kept in op.pre
Select ==
    /\ \E observed \in SelectorObserved, negative \in SelectorNegative :
        LET posterior == _compute_posterior(engine.disease_priors, observed, negative)
        IN  \E next_q \in _get_best_question(posterior, observed \o negative) :
                state' = [NoSession EXCEPT !.status = "SELECTED",
                                           !.posterior = posterior,
                                           !.observed_symptoms = observed,
                                           !.negative_symptoms = negative,
                                           !.next_question = next_q]
    /\ op' = [NoOp EXCEPT !.name = "_get_best_question", !.pre = state]
    /\ error' = "none"
    /\ UNCHANGED <<irregularCalls, engine, parked>>

SpecSelector == Init /\ [][Select]_vars

(***************************************************************************)
(* Properties                                                              *)
(***************************************************************************)
Updated == op.name = "update"

NotSure == <<"N","o","t"," ","s","u","r","e">>

\* the elements of a list
Elems(lst) == {lst[i] : i \in 1..Len(lst)}

\* the configured red-flag symptom identifiers
RedFlagIds == {Lower(red_flags[i].symptom) : i \in 1..Len(red_flags)}

\* C1: update() on a FINISHED session signals an invalid-operation error and
\* leaves the session exactly as it was.
C1_FinishedUpdateRejected ==
    (Updated /\ op.pre.status = "FINISHED")
        => (error = "invalid_operation" /\ state = op.pre)

\* C2: EMERGENCY is absorbing: an update() on an EMERGENCY session never
\* returns a state whose status is IN_PROGRESS or FINISHED.
C2_EmergencyAbsorbing ==
    (Updated /\ op.pre.status = "EMERGENCY")
        => state.status \notin {"IN_PROGRESS", "FINISHED"}

\* C3: when update() confirms a symptom that matches a configured red flag,
\* the returned state has status EMERGENCY.
C3_ConfirmedRedFlagIsEmergency ==
    (/\ Updated
     /\ op.class = "yes"
     /\ op.current # None
     /\ Normalize(op.current[1]) \in RedFlagIds)
        => state.status = "EMERGENCY"

\* the normalised symptoms of the list start() was called with
StartSymptoms == {Normalize(op.input[i]) : i \in 1..Len(op.input)}

\* C4: start() with at least one configured red-flag symptom returns
\* EMERGENCY and a non-empty red-flag list; with no red-flag hit it returns
\* IN_PROGRESS.
C4_RedFlagStart ==
    op.name = "start" =>
        /\ StartSymptoms \cap RedFlagIds # {}
              => (state.status = "EMERGENCY" /\ state.red_flags # <<>>)
        /\ state.red_flags = <<>> => state.status = "IN_PROGRESS"

\* a red-flag symptom given after another symptom, the posterior favouring
\* the disease that red flag does not point to
C4_Witness ==
    /\ op.name = "start"
    /\ Len(op.input) >= 2
    /\ Normalize(op.input[1]) \notin RedFlagIds
    /\ Normalize(op.input[Len(op.input)]) \in RedFlagIds
    /\ state.status = "EMERGENCY"
    /\ state.posterior["Migraine"] > state.posterior["Influenza"]

\* C5: len(askedQuestions) <= 7 in every state reachable by start() and
\* any sequence of update() calls.
C5_AtMostSevenAsked == Len(state.asked_questions) <= HARD_MAX_QUESTIONS

\* C6: a state returned by update() in which 7 questions have been asked is
\* FINISHED with no pending question, whatever the top posterior is.
C6_HardStop ==
    (Updated /\ Len(state.asked_questions) >= HARD_MAX_QUESTIONS)
        => (state.status = "FINISHED" /\ state.next_question = None)

\* the seventh question answered on a session that was still in progress
\* with a top posterior below every confidence threshold
C6_Witness ==
    /\ Updated
    /\ op.pre.status = "IN_PROGRESS"
    /\ Len(op.pre.asked_questions) = HARD_MAX_QUESTIONS - 1
    /\ Len(state.asked_questions) = HARD_MAX_QUESTIONS
    /\ TopScore(state.posterior) < LOW_CONFIDENCE
    /\ state.status = "FINISHED"

\* C7 as stated: every update() makes askedQuestions exactly one longer, the
\* earlier elements an unchanged prefix, the new element the symptom answered.
C7_AlwaysOneLonger ==
    (Updated /\ op.current # None)
        => state.asked_questions
              = Append(op.pre.asked_questions, Normalize(op.current[1]))

\* C7 amended: update() appends the normalised symptom being answered to
\* askedQuestions exactly when it is not in the list yet; when it was asked
\* before, or no symptom is left to answer, askedQuestions stays as it was.
C7_OneLongerUnlessAsked ==
    Updated =>
        IF op.current = None
        THEN state.asked_questions = op.pre.asked_questions
        ELSE LET sym == Normalize(op.current[1])
             IN  IF InList(sym, op.pre.asked_questions)
                 THEN state.asked_questions = op.pre.asked_questions
                 ELSE state.asked_questions = Append(op.pre.asked_questions, sym)

\* both cases of C7 amended are met: the pending question answered on a
\* session in progress, and a symptom passed explicitly that was asked before
C7_Witness ==
    /\ Updated
    /\ op.pre.status = "IN_PROGRESS"
    /\ op.symptom # None
    /\ InList(Normalize(op.symptom[1]), op.pre.asked_questions)
    /\ state.asked_questions = op.pre.asked_questions
    /\ Len(state.asked_questions) >= 2

\* C8: confirmedSymptoms and deniedSymptoms have no element in common.
C8_ConfirmedDeniedDisjoint ==
    Elems(state.observed_symptoms) \cap Elems(state.negative_symptoms) = {}

\* C9: an update() answered "Not sure" leaves confirmedSymptoms and
\* deniedSymptoms unchanged while the question is added to askedQuestions.
C9_NotSureChangesNoList ==
    (Updated /\ op.answer = NotSure /\ op.current # None)
        => /\ state.observed_symptoms = op.pre.observed_symptoms
           /\ state.negative_symptoms = op.pre.negative_symptoms
           /\ InList(Normalize(op.current[1]), state.asked_questions)

\* C10: update() on a session with no pending question is reported as an
\* invalid-operation error; it neither changes the status nor records the
\* answer against some other symptom.
C10_NoPendingQuestionRejected ==
    (Updated /\ op.pre.next_question = None /\ op.symptom = None)
        => /\ error = "invalid_operation"
           /\ state.status = op.pre.status
           /\ state.asked_questions = op.pre.asked_questions

\* the KB symptoms a session has neither been told nor asked about
Unasked(st) ==
    symptoms \ (Elems(st.observed_symptoms) \cup Elems(st.negative_symptoms)
                   \cup Elems(st.asked_questions))

\* C11: after an update() that leaves fewer than 3 asked questions, the
\* session is IN_PROGRESS with a pending question whenever a symptom is left
\* to ask, however high the top posterior is.
C11_MinimumQuestions ==
    (Updated /\ Len(state.asked_questions) < MIN_QUESTIONS /\ Unasked(state) # {})
        => (state.status = "IN_PROGRESS" /\ state.next_question # None)

\* fewer than 3 asked, the top posterior already above the high threshold
C11_Witness ==
    /\ Updated
    /\ Len(state.asked_questions) = MIN_QUESTIONS - 1
    /\ TopScore(state.posterior) >= HIGH_CONFIDENCE
    /\ state.status = "IN_PROGRESS"
    /\ state.next_question # None

\* threshold(n) of the 3-5-7 rule for 3 <= n < 7
Threshold(n) == IF n < SOFT_MAX_QUESTIONS THEN HIGH_CONFIDENCE ELSE LOW_CONFIDENCE

\* C12: after an update() that leaves n asked questions, 3 <= n < 7, with a
\* symptom left to ask, the session is FINISHED iff the top posterior is at
\* least threshold(n) (0.85 for n in {3,4}, 0.60 for n in {5,6}); otherwise
\* it is IN_PROGRESS with a next question.
C12_ThresholdStop ==
    LET n == Len(state.asked_questions)
    IN  (/\ Updated
         /\ MIN_QUESTIONS <= n /\ n < HARD_MAX_QUESTIONS
         /\ Unasked(state) # {})
            => /\ state.status = "FINISHED" <=> TopScore(state.posterior) >= Threshold(n)
               /\ state.status # "FINISHED"
                     => (state.status = "IN_PROGRESS" /\ state.next_question # None)

\* 4 asked, the top posterior between the two thresholds: the session goes on
C12_Witness ==
    /\ Updated
    /\ Len(state.asked_questions) = SOFT_MAX_QUESTIONS - 1
    /\ TopScore(state.posterior) >= LOW_CONFIDENCE
    /\ TopScore(state.posterior) < HIGH_CONFIDENCE
    /\ Unasked(state) # {}
    /\ state.status = "IN_PROGRESS"

\* C13: a session with 4 asked questions and top posterior >= 0.85 is
\* FINISHED after the next update(), provided the top posterior after that
\* update is still >= 0.85.
C13_EarlyStopEligibility ==
    (/\ Updated
     /\ Len(op.pre.asked_questions) = SOFT_MAX_QUESTIONS - 1
     /\ TopScore(op.pre.posterior) >= HIGH_CONFIDENCE
     /\ TopScore(state.posterior) >= HIGH_CONFIDENCE)
        => state.status = "FINISHED"

\* such a session answered once more, the answer recorded as a fifth question
C13_Witness ==
    /\ Updated
    /\ Len(op.pre.asked_questions) = SOFT_MAX_QUESTIONS - 1
    /\ TopScore(op.pre.posterior) >= HIGH_CONFIDENCE
    /\ TopScore(state.posterior) >= HIGH_CONFIDENCE
    /\ Len(state.asked_questions) = SOFT_MAX_QUESTIONS
    /\ Unasked(state) # {}
    /\ state.status = "FINISHED"

\* C14: when the stopping policy says continue but the selector has no
\* question left, update() returns FINISHED with final predictions and no
\* pending question, and raises no error, at any question count.
C14_ExhaustedIsFinished ==
    (/\ Updated
     /\ op.current # None
     /\ StopReason(Len(state.asked_questions), TopScore(state.posterior)) = ""
     /\ Unasked(state) = {})
        => /\ state.status = "FINISHED"
           /\ state.next_question = None
           /\ state.final_predictions # <<>>
           /\ error = "none"

\* the last symptom of the KB answered as the second question of a session
C14_Witness ==
    /\ Updated
    /\ op.pre.status = "IN_PROGRESS"
    /\ op.current # None
    /\ Len(state.asked_questions) < MIN_QUESTIONS
    /\ Unasked(state) = {}
    /\ state.status = "FINISHED"
    /\ state.final_predictions # <<>>

\* sum(posterior.values())
PosteriorSum(posterior) == SumOver(posterior, 1)

\* C15: the posterior of every state returned by start() or update() sums
\* to 1.  Probabilities are held in units of 1/SCALE, each rounded down, so
\* the sum is 1 up to one unit per disease.
C15_PosteriorNormalized ==
    state.status # "NONE"
        => /\ PosteriorSum(state.posterior) <= SCALE
           /\ PosteriorSum(state.posterior) > SCALE - Len(diseases)

\* a posterior moved away from the prior by a confirmation and a denial
C15_Witness ==
    /\ Updated
    /\ state.observed_symptoms # <<>>
    /\ state.negative_symptoms # <<>>
    /\ state.posterior["Influenza"] # state.posterior["Migraine"]
    /\ PosteriorSum(state.posterior) > SCALE - Len(diseases)

\* weight(d, s) of the KB in percent: the row's weight, the smoothing constant
\* for a pair without a row
Weight(d, s) ==
    LET rows == {r \in disease_symptoms : r[1] = d /\ r[2] = s}
    IN  IF rows = {} THEN SMOOTHING_FACTOR ELSE (CHOOSE r \in rows : TRUE)[3]

\* prior[d] * product over C of weight(d, s) * product over N of
\* (1 - weight(d, s)), for all diseases at once, common factors cancelled
RECURSIVE BayesMass(_, _, _)
BayesMass(f, C, N) ==
    IF C # {}
    THEN LET s == CHOOSE x \in C : TRUE
         IN  BayesMass(Reduce([d \in DOMAIN f |-> f[d] * Weight(d, s)]), C \ {s}, N)
    ELSE IF N # {}
    THEN LET s == CHOOSE x \in N : TRUE
         IN  BayesMass(Reduce([d \in DOMAIN f |-> f[d] * (100 - Weight(d, s))]), C, N \ {s})
    ELSE f

PriorGiven == op.pre.posterior

\* C17: when the unnormalised mass summed over all diseases is <= 0, the
\* posterior calculator returns 1/|diseases| for every disease and raises no
\* error; the selector then works on that posterior.
C17_UniformFallback ==
    (/\ op.name = "_compute_posterior"
     /\ PosteriorSum(BayesMass(PriorGiven, Elems(state.observed_symptoms),
                               Elems(state.negative_symptoms))) <= 0)
        => /\ \A d \in DiseaseSet : state.posterior[d] = SCALE \div Len(diseases)
           /\ error = "none"
           /\ Unasked(state) # {} => state.next_question # None

\* a prior without mass, a confirmed and a denied symptom
C17_Witness ==
    /\ op.name = "_compute_posterior"
    /\ \A d \in DiseaseSet : PriorGiven[d] = 0
    /\ state.observed_symptoms # <<>>
    /\ state.negative_symptoms # <<>>
    /\ \A d \in DiseaseSet : state.posterior[d] = SCALE \div Len(diseases)

\* the unnormalised masses behind a state's posterior
Mass(st) == Unnormalized(disease_priors, st.observed_symptoms, st.negative_symptoms)

\* C18: with KB weights strictly between 0 and 1, missing pairs at the
\* smoothing constant and positive priors, every disease keeps a strictly
\* positive probability in every reachable state.  The stored posterior is
\* rounded down to 1/SCALE, so positivity is stated on the exact mass it is
\* computed from, and on the posterior wherever the share reaches one unit.
C18_NoZeroPosterior ==
    state.status # "NONE" =>
        \A d \in DiseaseSet :
            /\ Mass(state)[d] > 0
            /\ Mass(state)[d] * SCALE >= PosteriorSum(Mass(state)) => state.posterior[d] > 0

\* a confirmed symptom the KB has no row for under Migraine
C18_Witness ==
    /\ Updated
    /\ op.class = "yes"
    /\ op.current = Some(chest_pain)
    /\ InList(chest_pain, state.observed_symptoms)
    /\ state.negative_symptoms # <<>>
    /\ Mass(state)["Migraine"] > 0
    /\ state.posterior["Migraine"] > 0

\* C19: confirming or denying a symptom id outside the KB vocabulary is not
\* an error and leaves the posterior as it was without that symptom.
C19_UnknownSymptomIsNeutral ==
    (/\ Updated
     /\ op.current # None
     /\ Normalize(op.current[1]) \notin symptoms
     /\ op.class \in {"yes", "no"})
        => /\ state.posterior = op.pre.posterior
           /\ error = "none"

\* "rash" confirmed on a session whose posterior is not uniform
C19_Witness ==
    /\ Updated
    /\ op.class = "yes"
    /\ op.current # None
    /\ Normalize(op.current[1]) \notin symptoms
    /\ InList(Normalize(op.current[1]), state.observed_symptoms)
    /\ ~InList(Normalize(op.current[1]), op.pre.observed_symptoms)
    /\ state.posterior["Influenza"] # state.posterior["Migraine"]
    /\ state.posterior = op.pre.posterior

\* the last call ran the question selector: start() always does, update()
\* does when the stopping policy says continue
SelectorRan ==
    \/ op.name = "start"
    \/ /\ Updated
       /\ op.current # None
       /\ StopReason(Len(state.asked_questions), TopScore(state.posterior)) = ""

\* C20: the selector returns a symptom outside the asked/known list whose
\* combined score (information gain floored at 0 plus 0.1 times the cached
\* training gain) is maximal among the candidates outside that list, and
\* returns none exactly when there is no such candidate; a candidate of
\* score 0 is still returned.
C20_BestQuestion ==
    SelectorRan =>
        /\ state.next_question = None <=> Unasked(state) = {}
        /\ state.next_question # None =>
              LET best == state.next_question[1].symptom
              IN  /\ best \in Unasked(state)
                  /\ \A t \in Unasked(state) :
                        Score(state.posterior, t) <= Score(state.posterior, best)

\* the selector returned a question whose score is 0 while others were asked
C20_Witness ==
    /\ SelectorRan
    /\ Updated
    /\ state.next_question # None
    /\ Score(state.posterior, state.next_question[1].symptom) = 0
    /\ state.asked_questions # <<>>

\* C21: two calls of the selector with the same posterior and the same
\* asked/known list return the same symptom, also when candidates tie for
\* the maximum score.
C21_SelectorDeterministic ==
    (/\ op.name = "_get_best_question"
     /\ op.pre.status = "SELECTED"
     /\ op.pre.posterior = state.posterior
     /\ op.pre.observed_symptoms = state.observed_symptoms
     /\ op.pre.negative_symptoms = state.negative_symptoms)
        => state.next_question = op.pre.next_question

\* the label the spec gives a probability
Label(p) ==
    IF p >= HIGH_CONFIDENCE THEN "HIGH"
    ELSE IF p >= MEDIUM_CONFIDENCE THEN "MEDIUM"
    ELSE IF p >= LOW_CONFIDENCE THEN "MODERATE"
    ELSE "LOW"

\* predictions are ranked 1..k, in descending probability, each entry with
\* the posterior and the label of its disease, no disease twice
WellRanked(preds, posterior) ==
    /\ \A i \in 1..Len(preds) :
          /\ preds[i].rank = i
          /\ preds[i].disease \in DiseaseSet
          /\ preds[i].probability = posterior[preds[i].disease]
          /\ preds[i].confidence = Label(preds[i].probability)
    /\ \A i, j \in 1..Len(preds) :
          i < j => /\ preds[i].probability >= preds[j].probability
                   /\ preds[i].disease # preds[j].disease

IsPrefix(l, m) == Len(l) <= Len(m) /\ SubSeq(m, 1, Len(l)) = l

\* C23: the red flags of the state update() returns are those of the state
\* it was called on, in the same order, followed by the matches of the
\* newly confirmed symptom.
C23_RedFlagsAccumulate ==
    Updated =>
        /\ IsPrefix(op.pre.red_flags, state.red_flags)
        /\ \A i \in (Len(op.pre.red_flags) + 1)..Len(state.red_flags) :
              /\ op.class = "yes"
              /\ op.current # None
              /\ state.red_flags[i].symptom = Normalize(op.current[1])
              /\ ~InList(Normalize(op.current[1]), op.pre.observed_symptoms)

\* a session started with a red flag, a second red flag confirmed later
C23_Witness ==
    /\ Updated
    /\ op.pre.red_flags # <<>>
    /\ Len(state.red_flags) > Len(op.pre.red_flags)
    /\ state.red_flags[1].symptom # state.red_flags[Len(state.red_flags)].symptom

\* C25: the pending question of a state returned by start() or update() is
\* about a symptom that is in none of the confirmed, denied and asked lists.
C25_PendingQuestionIsNew ==
    (op.name \in {"start", "update"} /\ state.next_question # None)
        => state.next_question[1].symptom \in Unasked(state)

\* after an answer, with confirmed, denied and merely asked symptoms on
\* record, another question is pending
C25_Witness ==
    /\ Updated
    /\ state.next_question # None
    /\ state.observed_symptoms # <<>>
    /\ state.negative_symptoms # <<>>
    /\ Elems(state.asked_questions)
          \ (Elems(state.observed_symptoms) \cup Elems(state.negative_symptoms)) # {}
    /\ Elems(state.observed_symptoms) \ Elems(state.asked_questions) # {}

\* C26: a state returned by start() or update() with status IN_PROGRESS has
\* a pending question; a returned state without one is FINISHED or EMERGENCY.
C26_InProgressHasQuestion ==
    op.name \in {"start", "update"} =>
        /\ state.status = "IN_PROGRESS" => state.next_question # None
        /\ state.next_question = None => state.status \in {"FINISHED", "EMERGENCY"}

\* an answer below the stop thresholds that leaves no symptom to ask closes
\* the session
C26_Witness ==
    /\ Updated
    /\ op.pre.status = "IN_PROGRESS"
    /\ StopReason(Len(state.asked_questions), TopScore(state.posterior)) = ""
    /\ state.next_question = None
    /\ state.status = "FINISHED"

\* C27: update() leaves the state it was given as it was.
C27_GivenStateUnchanged == Updated => op.given = op.pre

\* only pending questions of a session in progress have been answered
RegularRun == Updated /\ irregularCalls = 0

\* C28: a session that start() returned IN_PROGRESS and that only answers
\* its pending questions, with any answers, is FINISHED after at most 7
\* update() calls: every call records one more asked question, a session
\* still in progress has had fewer than 7 calls, and the seventh call
\* finishes it.
C28_FinishedWithinSeven ==
    RegularRun =>
        /\ op.calls = Len(state.asked_questions)
        /\ op.calls <= HARD_MAX_QUESTIONS
        /\ state.status \in {"IN_PROGRESS", "FINISHED"}
        /\ state.status = "IN_PROGRESS" => op.calls < HARD_MAX_QUESTIONS
        /\ op.calls = HARD_MAX_QUESTIONS => state.status = "FINISHED"

\* seven answers that never decide the posterior: the seventh call finishes
\* the session with a symptom still left to ask
C28_Witness ==
    /\ RegularRun
    /\ op.calls = HARD_MAX_QUESTIONS
    /\ op.pre.status = "IN_PROGRESS"
    /\ state.status = "FINISHED"
    /\ TopScore(state.posterior) < LOW_CONFIDENCE
    /\ Unasked(state) # {}

\* C29: a symptom triggers a red flag only when it is identical, after
\* lowercasing, to a configured red-flag identifier: start() with no such
\* symptom returns IN_PROGRESS with an empty red-flag list.
C29_ExactMatchOnly ==
    (op.name = "start" /\ StartSymptoms \cap RedFlagIds = {})
        => (state.status = "IN_PROGRESS" /\ state.red_flags = <<>>)

\* the start() calls whose input repeats no normalised symptom
StartedOnce(input) ==
    \A i, j \in 1..Len(input) : Normalize(input[i]) = Normalize(input[j]) => i = j

\* C30: the state start() returns depends only on the set of normalised
\* input symptoms: the posterior and the confirmed symptoms are those of a
\* call that gives each of these symptoms once.
C30_DependsOnSymptomSet ==
    op.name = "start" =>
        \A once \in SeqsUpTo(RawSymptoms, MaxStart) :
            (StartedOnce(once)
             /\ {Normalize(once[i]) : i \in 1..Len(once)} = StartSymptoms)
                => \A r \in start(once) :
                      /\ state.posterior = r.posterior
                      /\ Elems(state.observed_symptoms) = Elems(r.observed_symptoms)
                      /\ Len(state.observed_symptoms) = Len(r.observed_symptoms)

\* the state st is one that the call o returns on the state it was given,
\* computed from the tables the engine holds now
ResultOfOwnCall(st, o) ==
    CASE o.name = "start" -> st \in start(o.input)
      [] o.name = "update" -> st \in {r.state : r \in update(o.pre, o.answer, o.symptom)}
      [] OTHER -> st = NoSession

====
